---- MODULE Spec2Model ----
(***************************************************************************)
(* Model of the rasa-saleor middleware: the query sanitizer, the GraphQL   *)
(* tool executor and the agent tool loop of actions/saleor_graphql_action, *)
(* and the session store, graph loop and request handlers of               *)
(* saleor_api/new_salor_graph + new_salor_api_server.                      *)
(*                                                                         *)
(* Strings are sequences of tokens: a keyword (channelListings, products,  *)
(* end, stop, first, last), an identifier or a number is one token made of *)
(* word characters; every other token is one non-word character.           *)
(***************************************************************************)
EXTENDS Integers, Sequences, FiniteSets, TLC

VARIABLES
    \* harness of the pure functions
    fin, fout, fpc,
    \* _tool_loop (actions/saleor_graphql_action.py)
    lpc, max_iters, iters, messages, tool_queries, last_ai, todo, invokes, result,
    \* server (saleor_api/new_salor_api_server.py, new_salor_graph.py)
    SESSIONS, heap, req, EXTERNAL_KG_MESSAGE, lastGql, clear_response

fvars == <<fin, fout, fpc>>
lvars == <<lpc, max_iters, iters, messages, tool_queries, last_ai, todo, invokes, result>>
svars == <<SESSIONS, heap, req, EXTERNAL_KG_MESSAGE, lastGql, clear_response>>
vars == <<fvars, lvars, svars>>

None == <<"None">>

----------------------------------------------------------------------------
(* Bounds *)

MaxHist == 3        \* longest history given to _sanitize_for_llm
MaxIters == 2       \* largest max_iters given to _tool_loop
MaxReqs == 2        \* /chat_bot requests over the life of the server
MaxSteps == 2       \* decision steps of one server turn
MaxTurnSteps == 5   \* tool-calling responses of the LLM in a turn served alone
MaxQuery == 4       \* longest query string (in tokens) given to _sanitize_query
MaxParenQuery == 6  \* longest query string over the parenthesis alphabet
MaxOver == 1        \* characters by which a serialized field exceeds the cut
MaxProducts == 2    \* longest kg_products list given to ActionSaleorGraphQL.run

----------------------------------------------------------------------------
(* Token strings *)

WordTokens == {"channelListings", "products", "end", "END", "stop", "first", "last", "x", "10"}

IsWord(t) == t \in WordTokens
IsSpace(t) == t = " "

\* the first index >= i of s that holds no whitespace (Len(s)+1 if none): \s*
RECURSIVE SkipWs(_, _)
SkipWs(s, i) ==
    IF i <= Len(s) /\ IsSpace(s[i]) THEN SkipWs(s, i + 1) ELSE i

\* the first index >= i of s that holds ")" (0 if none): [^)]* followed by \)
RECURSIVE FirstClose(_, _)
FirstClose(s, i) ==
    IF i > Len(s) THEN 0
    ELSE IF s[i] = ")" THEN i
    ELSE FirstClose(s, i + 1)

Slice(s, a, b) == IF a > b THEN <<>> ELSE SubSeq(s, a, b)

\* str.strip()
RECURSIVE LStrip(_)
LStrip(s) == IF s # <<>> /\ IsSpace(Head(s)) THEN LStrip(Tail(s)) ELSE s
RECURSIVE RStrip(_)
RStrip(s) ==
    IF s # <<>> /\ IsSpace(s[Len(s)]) THEN RStrip(SubSeq(s, 1, Len(s) - 1)) ELSE s
Strip(s) == RStrip(LStrip(s))

\* \b before position i of s, where s[i] is a word token
BoundaryBefore(s, i) == i = 1 \/ ~IsWord(s[i - 1])

----------------------------------------------------------------------------
(* _sanitize_query *)

\* re.sub(r'(channelListings)\s*\([^)]*\)', r'\1', fixed)
RECURSIVE SubChannelListings(_, _)
SubChannelListings(s, i) ==
    IF i > Len(s) THEN <<>>
    ELSE LET j == SkipWs(s, i + 1)
             k == IF j <= Len(s) /\ s[j] = "(" THEN FirstClose(s, j + 1) ELSE 0
         IN IF s[i] = "channelListings" /\ k # 0
            THEN <<"channelListings">> \o SubChannelListings(s, k + 1)
            ELSE <<s[i]>> \o SubChannelListings(s, i + 1)

\* re.sub(r'\bend\s*\{', 'stop {', fixed)
RECURSIVE SubEnd(_, _)
SubEnd(s, i) ==
    IF i > Len(s) THEN <<>>
    ELSE LET j == SkipWs(s, i + 1)
         IN IF /\ s[i] = "end"
               /\ BoundaryBefore(s, i)
               /\ j <= Len(s)
               /\ s[j] = "{"
            THEN <<"stop", " ", "{">> \o SubEnd(s, j + 1)
            ELSE <<s[i]>> \o SubEnd(s, i + 1)

\* re.search(r'\b(first|last)\s*:', inner)
HasFirstOrLast(inner) ==
    \E p \in 1..Len(inner) :
        /\ inner[p] \in {"first", "last"}
        /\ BoundaryBefore(inner, p)
        /\ LET q == SkipWs(inner, p + 1)
           IN q <= Len(inner) /\ inner[q] = ":"

add_first(inner) ==
    IF HasFirstOrLast(inner)
    THEN <<"products", "(">> \o inner \o <<")">>
    ELSE LET stripped == Strip(inner)
         IN <<"products", "(", "first", ":", " ", "10">>
              \o (IF stripped # <<>> THEN <<",", " ">> \o stripped ELSE <<>>)
              \o <<")">>

\* re.sub(r'products\s*\(\s*([^)]+)\)', add_first, fixed): the group is the
\* text from the first non-blank after "(" up to the first ")"; when only
\* blanks stand in between, \s* gives the last of them back to the group
RECURSIVE SubProducts(_, _)
SubProducts(s, i) ==
    IF i > Len(s) THEN <<>>
    ELSE LET j == SkipWs(s, i + 1)
             k == IF j <= Len(s) /\ s[j] = "(" THEN FirstClose(s, j + 1) ELSE 0
             w == SkipWs(s, j + 1)
             inner == IF w < k THEN Slice(s, w, k - 1) ELSE Slice(s, k - 1, k - 1)
         IN IF s[i] = "products" /\ k > j + 1
            THEN add_first(inner) \o SubProducts(s, k + 1)
            ELSE <<s[i]>> \o SubProducts(s, i + 1)

\* re.sub(r',\s*\)', ')', fixed)
RECURSIVE SubTidy(_, _)
SubTidy(s, i) ==
    IF i > Len(s) THEN <<>>
    ELSE LET j == SkipWs(s, i + 1)
         IN IF s[i] = "," /\ j <= Len(s) /\ s[j] = ")"
            THEN <<")">> \o SubTidy(s, j + 1)
            ELSE <<s[i]>> \o SubTidy(s, i + 1)

\* the sanitizer returning fixed.strip()
SanitizeQueryStripped(q) ==
    Strip(SubTidy(SubProducts(SubEnd(SubChannelListings(q, 1), 1), 1), 1))

\* lines 97-117, q a string
_sanitize_query(q) ==
    SubTidy(SubProducts(SubEnd(SubChannelListings(q, 1), 1), 1), 1)

----------------------------------------------------------------------------
(* Messages *)

\* a message of langchain_core.messages; rid is the request that made it
\* (0 outside the server), content a token string
Msg(type, content, tool_calls, tool_call_id, rid) ==
    [type |-> type, content |-> content, tool_calls |-> tool_calls,
     tool_call_id |-> tool_call_id, rid |-> rid]

NoId == <<>>

SystemMessage(content) == Msg("system", content, <<>>, NoId, 0)
HumanMessage(content, rid) == Msg("human", content, <<>>, NoId, rid)
AIMessage(content, tool_calls, rid) == Msg("ai", content, tool_calls, NoId, rid)
ToolMessage(content, tool_call_id, rid) == Msg("tool", content, <<>>, tool_call_id, rid)

\* last_ai = None
NoMessage == Msg("none", <<>>, <<>>, NoId, 0)

\* a tool call as the LLM emits it
ToolCall(id, args) == [name |-> "query_graphql", id |-> id, args |-> args]

----------------------------------------------------------------------------
(* _sanitize_for_llm *)

\* the filter leaving out the assistant messages that carry tool calls
SanitizeStepDropsCalls(acc, m) ==
    IF m.type = "ai"
    THEN (IF m.tool_calls # <<>> THEN <<acc[1], TRUE>> ELSE <<Append(acc[1], m), FALSE>>)
    ELSE IF m.type = "tool" THEN (IF acc[2] THEN <<Append(acc[1], m), acc[2]>> ELSE acc)
    ELSE <<Append(acc[1], m), FALSE>>

\* the loop body of _sanitize_for_llm: acc is <<clean, pending_tools_allowed>>
SanitizeStep(acc, m) ==
    IF m.type = "ai" THEN <<Append(acc[1], m), m.tool_calls # <<>>>>
    ELSE IF m.type = "tool" THEN (IF acc[2] THEN <<Append(acc[1], m), acc[2]>> ELSE acc)
    ELSE <<Append(acc[1], m), FALSE>>

RECURSIVE SanitizeFrom(_, _, _)
SanitizeFrom(ms, i, acc) ==
    IF i > Len(ms) THEN acc[1] ELSE SanitizeFrom(ms, i + 1, SanitizeStep(acc, ms[i]))

_sanitize_for_llm(ms) == SanitizeFrom(ms, 1, <<<<>>, FALSE>>)

----------------------------------------------------------------------------
(* Tool-call arguments: a dict from argument names to tagged values *)

StrVal(ts) == [t |-> "str", v |-> ts]
IntVal(ts) == [t |-> "int", v |-> ts]
ObjVal(ts) == [t |-> "obj", v |-> ts]       \* a list or a dict; v is its str()
NoneVal == [t |-> "none", v |-> <<"None">>]

EmptyArgs == [k \in {} |-> NoneVal]

\* args.get(k)
Get(args, k) == IF k \in DOMAIN args THEN args[k] ELSE NoneVal

\* bool(v)
Truthy(val) ==
    /\ val.t # "none"
    /\ ~(val.t = "str" /\ val.v = <<>>)
    /\ ~(val.t = "int" /\ val.v = <<"0">>)
    /\ ~(val.t = "obj" /\ val.v = <<"[", "]">>)

\* a or b
Or(a, b) == IF Truthy(a) THEN a ELSE b

IsStr(val) == val.t = "str"
IsPrimitive(val) == val.t \in {"str", "int", "none"}

\* str(args), the keys in a fixed order
ArgKeys == <<"query", "input", "tool_input", "limit">>

RECURSIVE StrOfArgsFrom(_, _)
StrOfArgsFrom(args, i) ==
    IF i > Len(ArgKeys) THEN <<>>
    ELSE (IF ArgKeys[i] \in DOMAIN args
          THEN <<ArgKeys[i], ":">> \o args[ArgKeys[i]].v \o <<";">>
          ELSE <<>>) \o StrOfArgsFrom(args, i + 1)

StrOfArgs(args) == <<"{">> \o StrOfArgsFrom(args, 1) \o <<"}">>

\* what _tool_loop hands to _invoke_graphql: a string or the args dict
StrInput(ts) == [t |-> "str", v |-> ts, d |-> EmptyArgs]
DictInput(args) == [t |-> "dict", v |-> <<>>, d |-> args]

\* str() of what a strategy was given
InputText(ti) == IF ti.t = "str" THEN ti.v ELSE StrOfArgs(ti.d)

----------------------------------------------------------------------------
(* _invoke_graphql *)

\* outcomes of one strategy: "ok" or the exception it raises
Errors == {"Timeout", "HTTP400"}
Outcomes == {"ok"} \cup Errors

Attempt(strategy, query) == [strategy |-> strategy, query |-> query]

\* the value a strategy returns for the query it was given
StrategyResult(strategy, query) == <<"result", strategy>> \o InputText(query)

CompositeError(e, e2) ==
    <<"GraphQL failed.", "No-schema error:", e, "|", "With-schema error:", e2>>

\* query = _sanitize_query(tool_input) if isinstance(tool_input, str) else tool_input
InvokeQuery(tool_input) ==
    IF tool_input.t = "str" THEN StrInput(_sanitize_query(tool_input.v)) ELSE tool_input

\* the executor re-raising the second error alone ("raise e2")
InvokeGraphqlRaiseE2(tool_input, o1, o2) ==
    LET query == InvokeQuery(tool_input)
        a1 == Attempt("no_schema", query)
        a2 == Attempt("with_schema", query)
    IN IF o1 = "ok"
       THEN [attempts |-> <<a1>>, raised |-> FALSE,
             value |-> StrategyResult("no_schema", query)]
       ELSE IF o2 = "ok"
       THEN [attempts |-> <<a1, a2>>, raised |-> FALSE,
             value |-> StrategyResult("with_schema", query)]
       ELSE [attempts |-> <<a1, a2>>, raised |-> TRUE, value |-> <<o2>>]

\* o1, o2: the outcomes of the no-schema and of the with-schema strategy
_invoke_graphql(tool_input, o1, o2) ==
    LET query == InvokeQuery(tool_input)
        a1 == Attempt("no_schema", query)
        a2 == Attempt("with_schema", query)
    IN IF o1 = "ok"
       THEN [attempts |-> <<a1>>, raised |-> FALSE,
             value |-> StrategyResult("no_schema", query)]
       ELSE IF o2 = "ok"
       THEN [attempts |-> <<a1, a2>>, raised |-> FALSE,
             value |-> StrategyResult("with_schema", query)]
       ELSE [attempts |-> <<a1, a2>>, raised |-> TRUE,
             value |-> CompositeError(o1, o2)]

----------------------------------------------------------------------------
(* _tool_loop *)

SYSTEM_PROMPT == <<"SYSTEM_PROMPT">>
FallbackAnswer == <<"Sorry, I couldn't generate an answer.">>
Digits == <<"1", "2", "3", "4", "5", "6", "7", "8", "9">>

\* the text of the LLM's n-th response of a run
ResponseText(n) == <<"text", Digits[n]>>

\* safe_args keeping every argument, whatever its type
SafeArgsKeepAll(args) ==
    LET query_arg == Or(Get(args, "query"), Get(args, "input"))
    IN IF IsStr(query_arg)
       THEN [k \in {"query"} |-> StrVal(_sanitize_query(query_arg.v))]
       ELSE IF "query" \in DOMAIN args
       THEN args
       ELSE [k \in DOMAIN args \cup {"query"} |->
               IF k = "query"
               THEN (IF query_arg.t # "none" THEN StrVal(query_arg.v)
                     ELSE StrVal(StrOfArgs(args)))
               ELSE args[k]]

\* safe_args taking `input` before `query`
SafeArgsInputFirst(args) ==
    LET query_arg == Or(Get(args, "input"), Get(args, "query"))
        kept == [k \in {k2 \in DOMAIN args : IsPrimitive(args[k2])} |-> args[k]]
    IN IF IsStr(query_arg)
       THEN [k \in {"query"} |-> StrVal(_sanitize_query(query_arg.v))]
       ELSE IF "query" \in DOMAIN kept
       THEN kept
       ELSE [k \in DOMAIN kept \cup {"query"} |->
               IF k = "query"
               THEN (IF query_arg.t # "none" THEN StrVal(query_arg.v)
                     ELSE StrVal(StrOfArgs(args)))
               ELSE kept[k]]

\* lines 149-161: the arguments stored in the assistant message
SafeArgs(args) ==
    LET query_arg == Or(Get(args, "query"), Get(args, "input"))
        kept == [k \in {k2 \in DOMAIN args : IsPrimitive(args[k2])} |-> args[k]]
    IN IF IsStr(query_arg)
       THEN [k \in {"query"} |-> StrVal(_sanitize_query(query_arg.v))]
       ELSE IF "query" \in DOMAIN kept
       THEN kept
       ELSE [k \in DOMAIN kept \cup {"query"} |->
               IF k = "query"
               THEN (IF query_arg.t # "none" THEN StrVal(query_arg.v)
                     ELSE StrVal(StrOfArgs(args)))
               ELSE kept[k]]

\* lines 145-162
SanitizedCalls(tool_calls) ==
    [i \in 1..Len(tool_calls) |->
        [name |-> tool_calls[i].name, id |-> tool_calls[i].id,
         args |-> SafeArgs(tool_calls[i].args)]]

\* lines 169-172
ToolInput(args) ==
    LET query_arg == Or(Get(args, "query"), Get(args, "input"))
    IN IF IsStr(query_arg) THEN StrInput(query_arg.v) ELSE DictInput(args)

\* lines 175-180
RecordedQuery(args) ==
    LET query_arg == Or(Get(args, "query"), Get(args, "input"))
    IN IF IsStr(query_arg) THEN _sanitize_query(query_arg.v) ELSE StrOfArgs(args)

NoResult == [status |-> "none", answer |-> <<>>, queries |-> <<>>, error |-> <<>>]

\* the answer taken from the last message of the list instead of last_ai
ReturnValueLastMessage(ai, queries) ==
    [status |-> "returned",
     answer |-> IF messages = <<>> THEN FallbackAnswer
                ELSE messages[Len(messages)].content,
     queries |-> queries, error |-> <<>>]

\* lines 184-185
ReturnValue(ai, queries) ==
    [status |-> "returned",
     answer |-> IF ai.type # "none" THEN ai.content ELSE FallbackAnswer,
     queries |-> queries, error |-> <<>>]

Raised(error) == [status |-> "raised", answer |-> <<>>, queries |-> <<>>, error |-> error]

\* the loop running once more than max_iters
AfterToolsOneMore(n, max) == IF n <= max THEN "deciding" ELSE "returned"

\* for _ in range(max_iters): where the loop goes after the tool calls of
\* the n-th iteration
AfterTools(n, max) == IF n < max THEN "deciding" ELSE "returned"

----------------------------------------------------------------------------
(* Idle values of the three parts *)

\* SESSIONS = {}
NoSessions == [k \in {} |-> 0]

FIdle == fin = <<>> /\ fout = <<>> /\ fpc = "off"

LIdle ==
    /\ lpc = "off" /\ max_iters = 0 /\ iters = 0 /\ messages = <<>>
    /\ tool_queries = <<>> /\ last_ai = NoMessage /\ todo = 0 /\ invokes = <<>>
    /\ result = NoResult

SIdle ==
    /\ SESSIONS = NoSessions /\ heap = <<>> /\ req = <<>> /\ EXTERNAL_KG_MESSAGE = None
    /\ lastGql = <<>> /\ clear_response = <<>>

----------------------------------------------------------------------------
(* Specification of _sanitize_for_llm on every history up to MaxHist *)

HistAlphabet ==
    { HumanMessage(<<"q">>, 0),
      AIMessage(<<"a">>, <<>>, 0),
      AIMessage(<<"a">>, <<ToolCall(<<"c1">>, EmptyArgs)>>, 0),
      AIMessage(<<"a">>, <<ToolCall(<<"c2">>, EmptyArgs)>>, 0),
      ToolMessage(<<"r">>, <<"c1">>, 0),
      ToolMessage(<<"r">>, <<"c2">>, 0) }

RECURSIVE SeqsUpTo(_, _)
SeqsUpTo(S, n) ==
    IF n = 0 THEN {<<>>}
    ELSE LET P == SeqsUpTo(S, n - 1)
         IN P \cup {Append(s, a) : s \in {p \in P : Len(p) = n - 1}, a \in S}

FilterInit ==
    /\ fin \in SeqsUpTo(HistAlphabet, MaxHist)
    /\ fout = <<>>
    /\ fpc = "start"
    /\ LIdle /\ SIdle

FilterApply ==
    /\ fpc = "start"
    /\ fout' = _sanitize_for_llm(fin)
    /\ fpc' = "done"
    /\ UNCHANGED <<fin, lvars, svars>>

FilterNext == FilterApply

SpecFilter == FilterInit /\ [][FilterNext]_vars

\* the ids declared by the assistant messages of ms before position i
DeclaredBefore(ms, i) ==
    UNION { {ms[j].tool_calls[c].id : c \in 1..Len(ms[j].tool_calls)} :
            j \in {j2 \in 1..(i - 1) : ms[j2].type = "ai"} }

\* C3: every tool-result message in the output of _sanitize_for_llm follows
\* an assistant message of that output that declared a tool call with the
\* tool-result's tool_call_id (dangling tool results are dropped)
C3_ToolResultsFollowMatchingCall ==
    fpc = "done" =>
        \A i \in 1..Len(fout) :
            fout[i].type = "tool" => fout[i].tool_call_id \in DeclaredBefore(fout, i)

----------------------------------------------------------------------------
(* Specifications of _sanitize_query, applied to a value and then to its   *)
(* own output: on every token string up to MaxQuery and some values that   *)
(* are no strings (SpecSanitize), and on the longer strings of a smaller   *)
(* alphabet (SpecParens)                                                   *)

QueryAlphabet ==
    {"channelListings", "products", "end", "END", "first", "x",
     "(", ")", "{", ",", " ", ":"}

ParenAlphabet == {"channelListings", "products", "(", ")", "x"}

NonStrings == {NoneVal, IntVal(<<"10">>), ObjVal(<<"[", "x", "]">>)}

\* lines 95-96: if not isinstance(q, str): return q
SanitizeAny(val) == IF IsStr(val) THEN StrVal(_sanitize_query(val.v)) ELSE val

SanitizeInit ==
    /\ fin \in {StrVal(q) : q \in SeqsUpTo(QueryAlphabet, MaxQuery)} \cup NonStrings
    /\ fout = <<>>
    /\ fpc = "q"
    /\ LIdle /\ SIdle

ParenInit ==
    /\ fin \in {StrVal(q) : q \in SeqsUpTo(ParenAlphabet, MaxParenQuery)}
    /\ fout = <<>>
    /\ fpc = "q"
    /\ LIdle /\ SIdle

\* fixed = _sanitize_query(q)
SanitizeOnce ==
    /\ fpc = "q"
    /\ fout' = <<SanitizeAny(fin)>>
    /\ fpc' = "once"
    /\ UNCHANGED <<fin, lvars, svars>>

\* _sanitize_query(fixed)
SanitizeTwice ==
    /\ fpc = "once"
    /\ fout' = Append(fout, SanitizeAny(fout[1]))
    /\ fpc' = "twice"
    /\ UNCHANGED <<fin, lvars, svars>>

SanitizeNext == SanitizeOnce \/ SanitizeTwice

SpecSanitize == SanitizeInit /\ [][SanitizeNext]_vars

SpecParens == ParenInit /\ [][SanitizeNext]_vars

\* C11: the sanitizer is idempotent: applied to its own output it returns
\* that output unchanged, for every query string
C11_SanitizeIdempotent ==
    fpc = "twice" => fout[2] = fout[1]

\* position i of s holds word and, after blanks, the token open follows
FollowedBy(s, i, word, open) ==
    /\ s[i] = word
    /\ LET j == SkipWs(s, i + 1) IN j <= Len(s) /\ s[j] = open

\* "first:" or "last:" among the arguments args
PaginationAmong(args) ==
    \E p \in 1..Len(args) :
        /\ args[p] \in {"first", "last"}
        /\ BoundaryBefore(args, p)
        /\ FollowedBy(args, p, args[p], ":")

\* s is products(args), args a list without parentheses, braces or commas
IsProductsCall(s) ==
    /\ Len(s) >= 3
    /\ s[1] = "products" /\ s[2] = "(" /\ s[Len(s)] = ")"
    /\ \A p \in 3..(Len(s) - 1) : s[p] \in {"x", "first", ":", " "}

\* C23: a call products(args) with neither first: nor last: among args gets
\* first: 10 as its first argument, followed by args; with first: or last:
\* among args it is left as it is; the empty argument list included
C23_PaginationInjected ==
    (fpc = "once" /\ IsStr(fin) /\ IsProductsCall(fin.v)) =>
        LET args == Slice(fin.v, 3, Len(fin.v) - 1)
        IN fout[1].v =
             IF PaginationAmong(args) THEN fin.v
             ELSE <<"products", "(", "first", ":", " ", "10">>
                    \o (IF Strip(args) = <<>> THEN <<>> ELSE <<",", " ">> \o Strip(args))
                    \o <<")">>

\* the parentheses of s are balanced
RECURSIVE Depth(_, _, _)
Depth(s, i, d) ==
    IF i > Len(s) THEN d
    ELSE IF s[i] = "(" THEN Depth(s, i + 1, d + 1)
    ELSE IF s[i] = ")" THEN (IF d = 0 THEN 0 - 1 ELSE Depth(s, i + 1, d - 1))
    ELSE Depth(s, i + 1, d)

Balanced(s) == Depth(s, 1, 0) = 0

\* C24: in the sanitized query no channelListings is followed by a
\* parenthesized argument list, and a query that is channelListings with one
\* (balanced) argument list comes out as channelListings alone
C24_ChannelArgsRemoved ==
    (fpc = "once" /\ IsStr(fin)) =>
        /\ \A i \in 1..Len(fout[1].v) :
               ~(/\ FollowedBy(fout[1].v, i, "channelListings", "(")
                 /\ FirstClose(fout[1].v, i + 1) # 0)
        /\ (/\ Len(fin.v) >= 3
            /\ fin.v[1] = "channelListings" /\ fin.v[2] = "(" /\ fin.v[Len(fin.v)] = ")"
            /\ \A p \in 3..(Len(fin.v) - 1) : fin.v[p] \in {"x", "(", ")"}
            /\ Balanced(fin.v)
            /\ \A p \in 3..(Len(fin.v) - 1) : Depth(SubSeq(fin.v, 1, p), 1, 0) >= 1)
           => fout[1].v = <<"channelListings">>

\* C25: no whole word `end`, in either letter case, that is followed (after
\* blanks) by an opening brace is left in the sanitized query
C25_EndRenamed ==
    (fpc = "once" /\ IsStr(fin)) =>
        \A i \in 1..Len(fout[1].v) :
            BoundaryBefore(fout[1].v, i) =>
                /\ ~FollowedBy(fout[1].v, i, "end", "{")
                /\ ~FollowedBy(fout[1].v, i, "END", "{")

\* one of the four repair patterns matches somewhere in s
RepairApplies(s) ==
    \E i \in 1..Len(s) :
        \/ FollowedBy(s, i, "channelListings", "(") /\ FirstClose(s, i + 1) # 0
        \/ BoundaryBefore(s, i) /\ FollowedBy(s, i, "end", "{")
        \/ /\ FollowedBy(s, i, "products", "(")
           /\ FirstClose(s, SkipWs(s, i + 1) + 1) > SkipWs(s, i + 1) + 1
        \/ FollowedBy(s, i, ",", ")")

\* C26: a string that none of the repair patterns matches, and a value that
\* is no string, is returned as it is
C26_NoOpWhenNothingApplies ==
    fpc = "once" =>
        /\ (IsStr(fin) /\ ~RepairApplies(fin.v)) => fout[1] = fin
        /\ ~IsStr(fin) => fout[1] = fin

C26_Witness ==
    /\ fpc = "once"
    /\ fin = StrVal(<<"end", " ", "products", " ">>)
    /\ fout[1] = fin

----------------------------------------------------------------------------
(* Specification of _tool_loop with its LLM and its two GraphQL strategies *)

UserTask == <<"task">>

QChannel == <<"channelListings", "(", "x", ")", " ", "{", "x">>
QProducts == <<"products", "(", "x", ")">>

ArgQuery == [query |-> StrVal(QChannel)]
ArgInput == [input |-> StrVal(QProducts)]
ArgToolInput == [tool_input |-> StrVal(QChannel)]
ArgObject == [query |-> ObjVal(<<"[", "x", "]">>), limit |-> IntVal(<<"10">>)]
ArgBoth == [query |-> StrVal(QChannel), input |-> StrVal(QProducts)]
ArgEmptyQuery == [query |-> StrVal(<<>>), input |-> StrVal(QProducts)]
ArgEmptyQueryLimit == [query |-> StrVal(<<>>), limit |-> IntVal(<<"10">>)]
ArgObjectInput == [query |-> ObjVal(<<"[", "x", "]">>), input |-> StrVal(QProducts)]

\* the argument lists of the tool calls of one LLM response
LLMArgLists ==
    { <<>>, <<ArgQuery>>, <<ArgInput, ArgToolInput>>, <<ArgObject>>,
      <<ArgBoth, ArgObjectInput>>, <<ArgEmptyQuery>>, <<ArgEmptyQueryLimit>> }

CallId(n, i) == <<"call", Digits[n], Digits[i]>>

\* the tool calls of the n-th response, given their arguments
LLMCalls(n, argl) == [i \in 1..Len(argl) |-> ToolCall(CallId(n, i), argl[i])]

LoopInit ==
    /\ lpc = "start"
    /\ max_iters \in 0..MaxIters
    /\ iters = 0 /\ messages = <<>> /\ tool_queries = <<>> /\ last_ai = NoMessage
    /\ todo = 0 /\ invokes = <<>> /\ result = NoResult
    /\ FIdle /\ SIdle

\* lines 135-136, and the return when the loop body never runs
LoopCall ==
    /\ lpc = "start"
    /\ messages' = <<SystemMessage(SYSTEM_PROMPT), HumanMessage(UserTask, 0)>>
    /\ lpc' = AfterTools(0, max_iters)
    /\ result' = IF AfterTools(0, max_iters) = "returned"
                 THEN ReturnValue(last_ai, tool_queries) ELSE result
    /\ UNCHANGED <<max_iters, iters, tool_queries, last_ai, todo, invokes>>
    /\ UNCHANGED <<fvars, svars>>

\* lines 139-165: llm.invoke answers; no tool calls: break and return
LLMRespond(argl) ==
    /\ lpc = "deciding"
    /\ LET ai == AIMessage(ResponseText(iters + 1), LLMCalls(iters + 1, argl), 0)
       IN /\ iters' = iters + 1
          /\ last_ai' = ai
          /\ IF ai.tool_calls = <<>>
             THEN /\ lpc' = "returned"
                  /\ result' = ReturnValue(ai, tool_queries)
                  /\ UNCHANGED <<messages, todo>>
             ELSE /\ messages' =
                        Append(messages,
                               AIMessage(ai.content, SanitizedCalls(ai.tool_calls), 0))
                  /\ todo' = 1
                  /\ lpc' = "executing"
                  /\ UNCHANGED result
    /\ UNCHANGED <<max_iters, tool_queries, invokes>>
    /\ UNCHANGED <<fvars, svars>>

\* the failure of llm.invoke caught in the loop and answered with the
\* fallback
LLMRaiseSwallowed ==
    /\ lpc = "deciding"
    /\ iters' = iters + 1
    /\ lpc' = "returned"
    /\ result' = [ReturnValue(last_ai, tool_queries) EXCEPT !.error = <<"LLMError">>]
    /\ UNCHANGED <<max_iters, messages, tool_queries, last_ai, todo, invokes>>
    /\ UNCHANGED <<fvars, svars>>

\* line 139: llm.invoke raises
LLMRaise ==
    /\ lpc = "deciding"
    /\ iters' = iters + 1
    /\ lpc' = "raised"
    /\ result' = Raised(<<"LLMError">>)
    /\ UNCHANGED <<max_iters, messages, tool_queries, last_ai, todo, invokes>>
    /\ UNCHANGED <<fvars, svars>>

\* the tool loop leaving the calls after the first one of a response unrun
ExecToolFirstOnly(o1, o2) ==
    /\ lpc = "executing"
    /\ LET tc == last_ai.tool_calls[todo]
           tool_input == ToolInput(tc.args)
           res == _invoke_graphql(tool_input, o1, o2)
           queries == Append(tool_queries, RecordedQuery(tc.args))
       IN /\ invokes' = Append(invokes,
                 [call |-> tc.id, iter |-> iters, input |-> tool_input,
                  e |-> o1, e2 |-> o2, attempts |-> res.attempts,
                  raised |-> res.raised, value |-> res.value])
          /\ IF res.raised
             THEN /\ lpc' = "raised"
                  /\ result' = Raised(res.value)
                  /\ UNCHANGED <<messages, tool_queries, todo>>
             ELSE /\ tool_queries' = queries
                  /\ messages' = Append(messages, ToolMessage(res.value, tc.id, 0))
                  /\ todo' = 0
                  /\ lpc' = AfterTools(iters, max_iters)
                  /\ result' = IF AfterTools(iters, max_iters) = "returned"
                               THEN ReturnValue(last_ai, queries) ELSE result
    /\ UNCHANGED <<max_iters, iters, last_ai>>
    /\ UNCHANGED <<fvars, svars>>

\* lines 168-182: one tool call of the last response; after the last one the
\* for loop goes on or ends (lines 138, 184-185)
ExecTool(o1, o2) ==
    /\ lpc = "executing"
    /\ LET tc == last_ai.tool_calls[todo]
           tool_input == ToolInput(tc.args)
           res == _invoke_graphql(tool_input, o1, o2)
           queries == Append(tool_queries, RecordedQuery(tc.args))
       IN /\ invokes' = Append(invokes,
                 [call |-> tc.id, iter |-> iters, input |-> tool_input,
                  e |-> o1, e2 |-> o2, attempts |-> res.attempts,
                  raised |-> res.raised, value |-> res.value])
          /\ IF res.raised
             THEN /\ lpc' = "raised"
                  /\ result' = Raised(res.value)
                  /\ UNCHANGED <<messages, tool_queries, todo>>
             ELSE /\ tool_queries' = queries
                  /\ messages' = Append(messages, ToolMessage(res.value, tc.id, 0))
                  /\ IF todo < Len(last_ai.tool_calls)
                     THEN /\ todo' = todo + 1
                          /\ UNCHANGED <<lpc, result>>
                     ELSE /\ todo' = 0
                          /\ lpc' = AfterTools(iters, max_iters)
                          /\ result' = IF AfterTools(iters, max_iters) = "returned"
                                       THEN ReturnValue(last_ai, queries) ELSE result
    /\ UNCHANGED <<max_iters, iters, last_ai>>
    /\ UNCHANGED <<fvars, svars>>

LoopNext ==
    \/ LoopCall
    \/ \E argl \in LLMArgLists : LLMRespond(argl)
    \/ LLMRaise
    \/ \E o1 \in Outcomes, o2 \in Outcomes :
          \* the with-schema strategy has an outcome only when it is tried
          (o1 = "ok" => o2 = "ok") /\ ExecTool(o1, o2)

SpecLoop == LoopInit /\ [][LoopNext]_vars

Range(f) == {f[i] : i \in DOMAIN f}

\* the tool-call ids declared by the assistant messages of ms, in order
RECURSIVE DeclaredIds(_)
DeclaredIds(ms) ==
    IF ms = <<>> THEN <<>>
    ELSE (IF Head(ms).type = "ai"
          THEN [c \in 1..Len(Head(ms).tool_calls) |-> Head(ms).tool_calls[c].id]
          ELSE <<>>) \o DeclaredIds(Tail(ms))

ExecutedIds == [k \in 1..Len(invokes) |-> invokes[k].call]

\* every response of the LLM so far requested a tool call
EveryResponseCalledTools == last_ai.type = "none" \/ last_ai.tool_calls # <<>>

\* C1: a failure of the tool executor (both strategies failing) does not end
\* the loop: its text is the tool-result message of that tool call and the
\* loop goes on to return a result
C1_ToolFailureNotFatal ==
    \A k \in 1..Len(invokes) :
        invokes[k].raised =>
            /\ lpc # "raised"
            /\ \E i \in 1..Len(messages) :
                   /\ messages[i].type = "tool"
                   /\ messages[i].tool_call_id = invokes[k].call
                   /\ messages[i].content = invokes[k].value

\* C4: with an LLM that requests a tool call in every response and an
\* executor that succeeds, the LLM is invoked max_iters times and no more,
\* and the loop returns the text of the max_iters-th response, or the fixed
\* fallback string when max_iters = 0
C4_LoopCappedAtMaxIters ==
    /\ iters <= max_iters
    /\ lpc = "deciding" => iters < max_iters
    /\ (lpc = "returned" /\ EveryResponseCalledTools) =>
           /\ iters = max_iters
           /\ result.status = "returned"
           /\ result.answer = IF max_iters = 0 THEN FallbackAnswer
                              ELSE ResponseText(max_iters)
           /\ max_iters > 0 => last_ai.content = ResponseText(max_iters)
    /\ (EveryResponseCalledTools /\ iters = max_iters /\ todo = 0 /\ lpc # "start") =>
           lpc \in {"returned", "raised"}

C4_Witness ==
    /\ lpc = "returned" /\ EveryResponseCalledTools
    /\ max_iters = MaxIters /\ iters = MaxIters
    /\ Len(invokes) >= MaxIters

\* C5: when the N-th response is the first without tool calls, the LLM was
\* invoked N times, the executed tool calls are those of the responses
\* 1..N-1 in order, and the loop has returned the N-th text
C5_StopsAtFirstPlainResponse ==
    (last_ai.type = "ai" /\ last_ai.tool_calls = <<>>) =>
        /\ lpc = "returned"
        /\ result.status = "returned"
        /\ iters <= max_iters
        /\ last_ai.content = ResponseText(iters)
        /\ result.answer = ResponseText(iters)
        /\ ExecutedIds = DeclaredIds(messages)
        /\ \A k \in 1..Len(invokes) : invokes[k].iter < iters /\ ~invokes[k].raised

C5_Witness ==
    /\ last_ai.type = "ai" /\ last_ai.tool_calls = <<>>
    /\ iters = 2 /\ max_iters >= 2
    /\ Len(invokes) >= 2

\* C6: each run of the executor tries the no-schema strategy first and once,
\* tries the with-schema strategy once exactly when the first failed, returns
\* what the first successful strategy returned, and when both fail raises
\* one failure that carries both errors
C6_ExecutorFallbackPolicy ==
    \A k \in 1..Len(invokes) :
        LET r == invokes[k]
            tried == [a \in 1..Len(r.attempts) |-> r.attempts[a].strategy]
        IN /\ tried = IF r.e = "ok" THEN <<"no_schema">>
                      ELSE <<"no_schema", "with_schema">>
           /\ r.raised <=> (r.e # "ok" /\ r.e2 # "ok")
           /\ (r.e = "ok") => r.value = StrategyResult("no_schema", r.attempts[1].query)
           /\ (r.e # "ok" /\ r.e2 = "ok") =>
                  r.value = StrategyResult("with_schema", r.attempts[2].query)
           /\ r.raised => (r.e \in Range(r.value) /\ r.e2 \in Range(r.value))

C6_Witness ==
    \E k \in 1..Len(invokes), j \in 1..Len(invokes) :
        /\ invokes[k].e # "ok" /\ invokes[k].e2 = "ok"
        /\ invokes[j].raised /\ invokes[j].e # invokes[j].e2

\* the assistant message of the list that holds the sanitized calls of the
\* latest response (0 if none)
StoredResponse ==
    IF \E i \in 1..Len(messages) :
           messages[i].type = "ai" /\ messages[i].content = last_ai.content
    THEN CHOOSE i \in 1..Len(messages) :
           messages[i].type = "ai" /\ messages[i].content = last_ai.content
    ELSE 0

\* the primitive-typed arguments of args
Primitives(args) == {k \in DOMAIN args : IsPrimitive(args[k])}

\* stored is args normalized with `chosen` as the value picked by the
\* precedence query -> input
NormalizedWith(args, chosen, stored) ==
    IF IsStr(chosen)
    THEN /\ DOMAIN stored = {"query"}
         /\ stored["query"] = StrVal(_sanitize_query(chosen.v))
    ELSE /\ DOMAIN stored = Primitives(args) \cup {"query"}
         /\ \A k \in Primitives(args) : stored[k] = args[k]
         /\ "query" \notin Primitives(args) =>
                stored["query"] = IF chosen.t # "none" THEN StrVal(chosen.v)
                                  ELSE StrVal(StrOfArgs(args))

\* the stored calls of the latest response are its calls normalized, the
\* value picked for each by Pick
Normalized(Pick(_)) ==
    (last_ai.type = "ai" /\ last_ai.tool_calls # <<>>) =>
        /\ StoredResponse # 0
        /\ LET stored == messages[StoredResponse].tool_calls
           IN /\ Len(stored) = Len(last_ai.tool_calls)
              /\ \A c \in 1..Len(stored) :
                     /\ stored[c].id = last_ai.tool_calls[c].id
                     /\ NormalizedWith(last_ai.tool_calls[c].args,
                                       Pick(last_ai.tool_calls[c].args),
                                       stored[c].args)

\* `query` when the arguments have one, `input` otherwise
PickPresent(args) == IF "query" \in DOMAIN args THEN args["query"] ELSE Get(args, "input")

\* `query` when it is truthy, `input` otherwise
PickTruthy(args) ==
    IF Truthy(Get(args, "query")) THEN args["query"] ELSE Get(args, "input")

\* C12 as stated: the stored arguments of a tool call are {query:
\* sanitize(s)} when `query` (or, with `query` absent, `input`) is a string s;
\* otherwise they are the primitive-typed arguments plus, if none is named
\* `query`, a `query` entry with the string coercion of the raw value
C12_PrecedenceByPresence == Normalized(PickPresent)

\* C12 amended: the same with a `query` that is missing or falsy (None, "",
\* 0, an empty container) counting as absent
C12_PrecedenceByTruthiness == Normalized(PickTruthy)

C12_Witness ==
    /\ lpc = "executing"
    /\ \E c \in 1..Len(last_ai.tool_calls) :
           /\ last_ai.tool_calls[c].args = ArgBoth
           /\ messages[StoredResponse].tool_calls[c].args =
                  [query |-> StrVal(_sanitize_query(QChannel))]
    /\ \E c \in 1..Len(last_ai.tool_calls) :
           last_ai.tool_calls[c].args = ArgObjectInput

\* C13: every tool call of every assistant message of the message list has
\* a `query` argument and only primitive argument values (string, number,
\* bool, null)
C13_StoredArgsPrimitiveWithQuery ==
    \A i \in 1..Len(messages) :
        messages[i].type = "ai" =>
            \A c \in 1..Len(messages[i].tool_calls) :
                LET args == messages[i].tool_calls[c].args
                IN /\ "query" \in DOMAIN args
                   /\ \A k \in DOMAIN args : IsPrimitive(args[k])

C13_Witness ==
    /\ lpc = "executing"
    /\ last_ai.tool_calls[1].args = ArgObject
    /\ messages[StoredResponse].tool_calls[1].args =
           [query |-> StrVal(<<"[", "x", "]">>), limit |-> IntVal(<<"10">>)]

\* the arguments stored in the message list for the tool call with this id
StoredArgs(id) ==
    LET at == CHOOSE ic \in {<<i, c>> : i \in 1..Len(messages), c \in 1..2} :
                  /\ messages[ic[1]].type = "ai"
                  /\ ic[2] <= Len(messages[ic[1]].tool_calls)
                  /\ messages[ic[1]].tool_calls[ic[2]].id = id
    IN messages[at[1]].tool_calls[at[2]].args

\* C14: the returned queries hold one entry per executed tool call, in
\* execution order, and each entry is the sanitized query string that the
\* executor's strategies were given for that call, the same string as the
\* one stored under `query` in the assistant tool call
C14_QueriesAreExecutedQueries ==
    result.status = "returned" =>
        /\ Len(result.queries) = Len(invokes)
        /\ \A k \in 1..Len(invokes) :
               /\ invokes[k].attempts[1].query = StrInput(result.queries[k])
               /\ StoredArgs(invokes[k].call)["query"] = StrVal(result.queries[k])

\* in ms every assistant message is followed by one tool-result message per
\* declared call, in declaration order and bound to the call's id, and by
\* no further tool-result message
ResultsFollowCalls(ms) ==
    \A i \in 1..Len(ms) :
        ms[i].type = "ai" =>
            LET n == Len(ms[i].tool_calls)
            IN /\ i + n <= Len(ms)
               /\ \A c \in 1..n :
                      /\ ms[i + c].type = "tool"
                      /\ ms[i + c].tool_call_id = ms[i].tool_calls[c].id
               /\ i + n + 1 <= Len(ms) => ms[i + n + 1].type # "tool"

\* C15: at every LLM decision (and at the return) every tool call declared
\* so far has been run, in declaration order; the list holds each assistant
\* message followed by exactly one tool result per declared call, bound to
\* its id, and every tool result follows an assistant message declaring it
C15_AllCallsRunBeforeNextDecision ==
    lpc \in {"deciding", "returned"} =>
        /\ ExecutedIds = DeclaredIds(messages)
        /\ ResultsFollowCalls(messages)
        /\ \A i \in 1..Len(messages) :
               messages[i].type = "tool" =>
                   messages[i].tool_call_id \in DeclaredBefore(messages, i)

C15_Witness ==
    /\ lpc = "deciding" /\ iters = 1
    /\ Len(messages) = 5
    /\ Len(messages[3].tool_calls) = 2
    /\ messages[5].tool_call_id = messages[3].tool_calls[2].id

\* the LLM failed at the latest decision step
LLMFailed == result.error = <<"LLMError">>

C17_Aborted ==
    LLMFailed =>
        /\ lpc = "raised"
        /\ result.status = "raised" /\ result.answer = <<>> /\ result.queries = <<>>
        /\ iters <= max_iters
        /\ \A k \in 1..Len(invokes) : invokes[k].iter < iters

C17_NothingAfter == LLMFailed => lvars' = lvars

\* C17: a failure of llm.invoke ends _tool_loop by the exception: no result
\* is returned, the LLM is not invoked again and no tool call is run after
\* the failure
C17_LLMFailureAborts == []C17_Aborted /\ [][C17_NothingAfter]_vars

C17_Witness ==
    /\ LLMFailed /\ lpc = "raised"
    /\ iters = 2 /\ Len(invokes) >= 1

----------------------------------------------------------------------------
(* The server: SESSIONS, /chat_bot, /clear_chat_bot and the graph          *)
(* llm -> tool_exec -> llm of new_salor_graph.py.                          *)
(* heap[i] is the messages list of the i-th state dict ever made; SESSIONS *)
(* and the requests hold references into it, so that two holders of one    *)
(* dict see each other's appends.                                          *)

SessionIds == {"A", "B", ""}          \* the session_id form field; "" when absent
Questions == {<<>>, <<"q">>}          \* the question form field; <<>> when absent
Requests == 1..MaxReqs

\* sid = session_id or "default"
SessionKeyFixed(session_id) == "A"

\* sid = session_id, with no default
SessionKeyRaw(session_id) == session_id

SessionKey(session_id) == IF session_id = "" THEN "default" ELSE session_id

SessionKeys == {"A", "B", "default"}

\* the history reachable through SESSIONS[sid] (empty when there is no entry)
Stored(sid) == IF sid \in DOMAIN SESSIONS THEN heap[SESSIONS[sid]] ELSE <<>>

\* the knowledge-graph text that request r supplies
KGText(r) == <<"kg", Digits[r]>>

\* [:4000], lines 134 and 136
FmtLimit == 4000

\* a list or a set holding one string; v is the string, one token a character
ListVal(chars) == [t |-> "list", v |-> chars]
SetVal(chars) == [t |-> "set", v |-> chars]

\* json.dumps(obj, ensure_ascii=False) raises TypeError for a set
Serializable(obj) == obj.t \in {"list", "int"}

\* json.dumps(obj, ensure_ascii=False), obj serializable
json_dumps(obj) ==
    IF obj.t = "list" THEN <<"[", "\"">> \o obj.v \o <<"\"", "]">> ELSE obj.v

\* str(obj)
str(obj) ==
    IF obj.t = "list" THEN <<"[", "'">> \o obj.v \o <<"'", "]">>
    ELSE IF obj.t = "set" THEN <<"{", "'">> \o obj.v \o <<"'", "}">>
    ELSE obj.v

\* text[:4000]
Cut(text) == IF Len(text) <= FmtLimit THEN text ELSE SubSeq(text, 1, FmtLimit)

\* _fmt without the slices
FmtUncut(obj) ==
    IF obj.t = "none" THEN <<"N/A">>
    ELSE IF IsStr(obj) THEN obj.v
    ELSE IF Serializable(obj) THEN json_dumps(obj)
    ELSE str(obj)

\* _fmt, lines 127-136
Fmt(obj) ==
    IF obj.t = "none" THEN <<"N/A">>
    ELSE IF IsStr(obj) THEN obj.v
    ELSE IF Serializable(obj) THEN Cut(json_dumps(obj))
    ELSE Cut(str(obj))

_render_structured_input(users_query, additional_details, kg_products, kg_response) ==
    <<"# INPUTS", "Users query:">> \o users_query
      \o <<"Additional details:">> \o Fmt(additional_details)
      \o <<"KG products:">> \o Fmt(kg_products)
      \o <<"KG response:">> \o Fmt(kg_response)

\* an optional text argument of run_structured as a value
Optional(text) == IF text = None THEN NoneVal ELSE StrVal(text)

\* call_llm, lines 206-216: the system prompt with the KG background
SystemPrompt(kg_msg) ==
    IF kg_msg # None /\ kg_msg # <<>>
    THEN <<"GRAPH_SYSTEM_PROMPT", "# Background from Knowledge Graph">> \o kg_msg
    ELSE <<"GRAPH_SYSTEM_PROMPT">>

NoResponse ==
    [status |-> "", answer |-> <<>>, messages_count |-> 0, message |-> <<>>,
     error |-> <<>>]

Success(answer, n) ==
    [status |-> "Success", answer |-> answer, messages_count |-> n, message |-> <<>>,
     error |-> <<>>]

\* message = "Unable to get chat response from new Saleor graph"
UnableMessage == <<"Unable to get chat response from new Saleor graph">>

\* create_api_response("Failed", message=message, error=str(e), data=mode)
Failed(error) ==
    [status |-> "Failed", answer |-> <<>>, messages_count |-> 0,
     message |-> UnableMessage, error |-> error]

NoInput == [system |-> <<>>, history |-> <<>>]

IdleRequest ==
    [pc |-> "idle", session_id |-> "", sid |-> "", question |-> <<>>, kg |-> None,
     state |-> 0, graph |-> <<>>, steps |-> 0, budget |-> MaxSteps - 1,
     llm_in |-> NoInput,
     pre |-> <<>>, post |-> <<>>, disturbed |-> FALSE, response |-> NoResponse]

\* the request is between its read of SESSIONS and its response
InFlight(j) == req[j].pc \in {"append", "invoke", "llm", "tools", "end", "exc"}

\* next(m for m in reversed(messages) if isinstance(m, AIMessage))
RECURSIVE LastAI(_)
LastAI(ms) ==
    IF ms = <<>> THEN NoMessage
    ELSE IF ms[Len(ms)].type = "ai" THEN ms[Len(ms)]
    ELSE LastAI(SubSeq(ms, 1, Len(ms) - 1))

ServerInit ==
    /\ SESSIONS = NoSessions
    /\ heap = <<>>
    /\ req = [r \in Requests |-> IdleRequest]
    /\ EXTERNAL_KG_MESSAGE = None
    /\ lastGql = <<>>
    /\ clear_response = <<>>
    /\ FIdle /\ LIdle

\* chat_bot going on with a question that is missing
ChatStartUnvalidated(r, session_id, question, kg) ==
    /\ req[r].pc = "idle"
    /\ IF r = 1 THEN TRUE ELSE req[r - 1].pc # "idle"
    /\ LET sid == SessionKey(session_id)
           present == sid \in DOMAIN SESSIONS
           overlap == {j \in Requests \ {r} : InFlight(j) /\ req[j].sid = sid}
       IN /\ heap' = IF present THEN heap ELSE Append(heap, <<>>)
          /\ req' = [j \in Requests |->
                       IF j = r
                       THEN [req[r] EXCEPT
                               !.pc = "append", !.session_id = session_id,
                               !.sid = sid, !.question = question, !.kg = kg,
                               !.state = IF present THEN SESSIONS[sid]
                                         ELSE Len(heap) + 1,
                               !.pre = Stored(sid),
                               !.disturbed = overlap # {}]
                       ELSE IF j \in overlap
                       THEN [req[j] EXCEPT !.disturbed = TRUE]
                       ELSE req[j]]
    /\ UNCHANGED <<SESSIONS, EXTERNAL_KG_MESSAGE, lastGql>>
    /\ UNCHANGED <<clear_response, fvars, lvars>>

\* chat_bot, lines 144-159, on the event loop: validation, sid, the state dict
ChatStart(r, session_id, question, kg) ==
    /\ req[r].pc = "idle"
    /\ IF r = 1 THEN TRUE ELSE req[r - 1].pc # "idle"
    /\ IF question = <<>>
       THEN /\ req' = [req EXCEPT ![r] =
                         [@ EXCEPT !.pc = "failed", !.session_id = session_id,
                                   !.question = question, !.kg = kg,
                                   !.response = Failed(<<"400: Question is required">>)]]
            /\ UNCHANGED heap
       ELSE LET sid == SessionKey(session_id)
                present == sid \in DOMAIN SESSIONS
                overlap == {j \in Requests \ {r} : InFlight(j) /\ req[j].sid = sid}
            IN /\ heap' = IF present THEN heap ELSE Append(heap, <<>>)
               /\ req' = [j \in Requests |->
                            IF j = r
                            THEN [req[r] EXCEPT
                                    !.pc = "append", !.session_id = session_id,
                                    !.sid = sid, !.question = question, !.kg = kg,
                                    !.state = IF present THEN SESSIONS[sid]
                                              ELSE Len(heap) + 1,
                                    !.pre = Stored(sid),
                                    !.disturbed = overlap # {}]
                            ELSE IF j \in overlap
                            THEN [req[j] EXCEPT !.disturbed = TRUE]
                            ELSE req[j]]
    /\ UNCHANGED <<SESSIONS, EXTERNAL_KG_MESSAGE, lastGql>>
    /\ UNCHANGED <<clear_response, fvars, lvars>>

\* run_structured, lines 292-301, on the worker thread: make_structured_message
\* (which sets the KG globals when KG input is given) and the append to the
\* messages list of the state dict
RunAppend(r) ==
    /\ req[r].pc = "append"
    /\ IF req[r].kg # None
       THEN EXTERNAL_KG_MESSAGE' = req[r].kg
       ELSE UNCHANGED EXTERNAL_KG_MESSAGE
    /\ heap' = [heap EXCEPT ![req[r].state] =
                   Append(@, HumanMessage(
                       _render_structured_input(req[r].question, NoneVal,
                                                Optional(req[r].kg), NoneVal),
                       r))]
    /\ req' = [req EXCEPT ![r].pc = "invoke"]
    /\ UNCHANGED <<SESSIONS, lastGql>>
    /\ UNCHANGED <<clear_response, fvars, lvars>>

\* app.invoke(state), line 302: the graph takes its own copy of the messages
GraphStart(r) ==
    /\ req[r].pc = "invoke"
    /\ req' = [req EXCEPT ![r].pc = "llm", ![r].graph = heap[req[r].state]]
    /\ UNCHANGED <<SESSIONS, heap, EXTERNAL_KG_MESSAGE, lastGql>>
    /\ UNCHANGED <<clear_response, fvars, lvars>>

\* call_llm and should_continue, lines 201-234; kind is what llm.invoke does
\* (budget: how many responses with tool calls the LLM gives in this turn)
CallLLM(r, kind) ==
    /\ req[r].pc = "llm"
    /\ kind \in {"plain", "tool", "raise"}
    /\ kind = "tool" => req[r].steps < req[r].budget
    /\ LET input == [system |-> SystemPrompt(EXTERNAL_KG_MESSAGE),
                     history |-> _sanitize_for_llm(req[r].graph)]
           n == req[r].steps + 1
           calls == IF kind = "tool"
                    THEN <<ToolCall(<<"call", Digits[r], Digits[n]>>, ArgToolInput)>>
                    ELSE <<>>
           ai == AIMessage(<<"text", Digits[r], Digits[n]>>, calls, r)
           seen == [req[r] EXCEPT !.steps = n, !.llm_in = input]
       IN req' = [req EXCEPT ![r] =
                    IF kind = "raise"
                    THEN [seen EXCEPT !.pc = "exc"]
                    ELSE [seen EXCEPT !.graph = Append(@, ai),
                                      !.pc = IF calls # <<>> THEN "tools" ELSE "end"]]
    /\ UNCHANGED <<SESSIONS, heap, EXTERNAL_KG_MESSAGE, lastGql>>
    /\ UNCHANGED <<clear_response, fvars, lvars>>

\* tool_node = ToolNode(TOOLS), line 227: every tool call of the last
\* assistant message goes to graphql_tool (schema-fetching) as the LLM wrote
\* it; a tool error becomes the content of the tool message
ToolExec(r, o) ==
    /\ req[r].pc = "tools"
    /\ LET calls == req[r].graph[Len(req[r].graph)].tool_calls
           raw(c) == Get(calls[c].args, "tool_input").v
           results == [c \in 1..Len(calls) |->
                         ToolMessage(IF o = "ok"
                                     THEN StrategyResult("with_schema", StrInput(raw(c)))
                                     ELSE <<"Error:", o>>,
                                     calls[c].id, r)]
       IN /\ lastGql' = [c \in 1..Len(calls) |->
                           [strategy |-> "with_schema", raw |-> raw(c),
                            query |-> raw(c)]]
          /\ req' = [req EXCEPT ![r].graph = @ \o results, ![r].pc = "llm"]
    /\ UNCHANGED <<SESSIONS, heap, EXTERNAL_KG_MESSAGE>>
    /\ UNCHANGED <<clear_response, fvars, lvars>>

\* chat_bot, lines 171-209, back on the event loop with the new state
ChatFinish(r) ==
    /\ req[r].pc = "end"
    /\ heap' = Append(heap, req[r].graph)
    /\ SESSIONS' = [k \in DOMAIN SESSIONS \cup {req[r].sid} |->
                      IF k = req[r].sid THEN Len(heap) + 1 ELSE SESSIONS[k]]
    /\ req' = [req EXCEPT
                 ![r].pc = "done",
                 ![r].post = req[r].graph,
                 ![r].response = Success(LastAI(req[r].graph).content,
                                         Len(req[r].graph))]
    /\ UNCHANGED <<EXTERNAL_KG_MESSAGE, lastGql>>
    /\ UNCHANGED <<clear_response, fvars, lvars>>

\* chat_bot, lines 211-216: the exception of the worker thread is caught
ChatFail(r) ==
    /\ req[r].pc = "exc"
    /\ req' = [req EXCEPT
                 ![r].pc = "failed",
                 ![r].post = Stored(req[r].sid),
                 ![r].response = Failed(<<"LLMError">>)]
    /\ UNCHANGED <<SESSIONS, heap, EXTERNAL_KG_MESSAGE, lastGql>>
    /\ UNCHANGED <<clear_response, fvars, lvars>>

\* create_api_response('Success', message=...) of clear_chat_bot
Cleared(session_id) ==
    <<"Success", "Chat history cleared for session", session_id>>

\* clear_chat_bot emptying the whole store
ClearChatAll(session_id) ==
    /\ SESSIONS' = NoSessions
    /\ clear_response' = Cleared(session_id)
    /\ req' = [j \in Requests |->
                 IF InFlight(j) /\ req[j].sid = session_id
                 THEN [req[j] EXCEPT !.disturbed = TRUE] ELSE req[j]]
    /\ UNCHANGED <<heap, EXTERNAL_KG_MESSAGE, lastGql>>
    /\ UNCHANGED <<fvars, lvars>>

\* clear_chat_bot, lines 222-231
ClearChat(session_id) ==
    /\ SESSIONS' = [k \in DOMAIN SESSIONS \ {session_id} |-> SESSIONS[k]]
    /\ clear_response' = Cleared(session_id)
    /\ req' = [j \in Requests |->
                 IF InFlight(j) /\ req[j].sid = session_id
                 THEN [req[j] EXCEPT !.disturbed = TRUE] ELSE req[j]]
    /\ UNCHANGED <<heap, EXTERNAL_KG_MESSAGE, lastGql>>
    /\ UNCHANGED <<fvars, lvars>>

\* the steps of request r
RequestStep(r) ==
    \/ \E session_id \in SessionIds, question \in Questions, kg \in {None, KGText(r)} :
          ChatStart(r, session_id, question, kg)
    \/ RunAppend(r)
    \/ GraphStart(r)
    \/ \E kind \in {"plain", "tool", "raise"} : CallLLM(r, kind)
    \/ \E o \in {"ok", "Timeout"} : ToolExec(r, o)
    \/ ChatFinish(r)
    \/ ChatFail(r)

ServerNext ==
    \/ \E r \in Requests : RequestStep(r)
    \/ \E session_id \in SessionKeys : ClearChat(session_id)

SpecServer == ServerInit /\ [][ServerNext]_vars

\* one /chat_bot request served alone, its LLM asking for tools up to
\* MaxTurnSteps times
TurnInit ==
    /\ SESSIONS = NoSessions
    /\ heap = <<>>
    /\ req = [r \in Requests |->
                 IF r = 1 THEN [IdleRequest EXCEPT !.budget = MaxTurnSteps]
                 ELSE [IdleRequest EXCEPT !.pc = "unused"]]
    /\ EXTERNAL_KG_MESSAGE = None
    /\ lastGql = <<>>
    /\ clear_response = <<>>
    /\ FIdle /\ LIdle

SpecTurn == TurnInit /\ [][ServerNext]_vars

\* C2: a turn that fails after the session state was read leaves stored for
\* its session exactly the history that was stored when it started
C2_FailedTurnLeavesStoreUnchanged ==
    \A r \in Requests :
        (req[r].pc = "failed" /\ req[r].state # 0 /\ ~req[r].disturbed) =>
            req[r].post = req[r].pre

\* C7: every query handed to a GraphQL strategy is the sanitizer's output for
\* the string the LLM produced, the same for the primary and the fallback
C7_StrategiesGetSanitizedQuery ==
    /\ \A c \in 1..Len(lastGql) :
           lastGql[c].query = _sanitize_query(lastGql[c].raw)
    /\ \A k \in 1..Len(invokes) :
           invokes[k].input.t = "str" =>
               \A a \in 1..Len(invokes[k].attempts) :
                   invokes[k].attempts[a].query.v = _sanitize_query(invokes[k].input.v)

\* C8: the history stored for session id A or B holds only messages made by
\* requests with that session id, and no step of a request or of a clear on
\* another session id changes it
C8_OwnMessagesOnly ==
    \A k \in {"A", "B"} :
        \A i \in 1..Len(Stored(k)) : req[Stored(k)[i].rid].session_id = k

C8_OthersUntouched ==
    \A k \in {"A", "B"} :
        /\ \A r \in Requests :
               (RequestStep(r) /\ req'[r].session_id # k) => Stored(k)' = Stored(k)
        /\ \A x \in SessionKeys \ {k} : ClearChat(x) => Stored(k)' = Stored(k)

C8_SessionIsolation == []C8_OwnMessagesOnly /\ [][C8_OthersUntouched]_vars

C8_Witness ==
    /\ Stored("A") # <<>> /\ Stored("B") # <<>>
    /\ \E r \in Requests : req[r].pc = "done" /\ req[r].session_id = "A"

\* C9: the system message given to the LLM at a decision step of a request
\* carries no knowledge-graph text other than text supplied by requests of
\* the same session
C9_LLMInputFromOwnSessionOnly ==
    \A r \in Requests :
        req[r].steps > 0 =>
            req[r].llm_in.system \in
                {SystemPrompt(None)} \cup
                {SystemPrompt(KGText(j)) :
                    j \in {j2 \in Requests : req[j2].sid = req[r].sid}}

\* C10: while the agent loop of a turn runs, the history reachable through
\* the session store for its session id is the pre-turn history
C10_StoreUnchangedDuringTurn ==
    \A r \in Requests :
        (req[r].pc \in {"invoke", "llm", "tools"} /\ ~req[r].disturbed) =>
            Stored(req[r].sid) = req[r].pre

\* the last message before position i of h that is no tool result (0 if none)
RECURSIVE Requester(_, _)
Requester(h, i) ==
    IF i <= 1 THEN 0
    ELSE IF h[i - 1].type # "tool" THEN i - 1
    ELSE Requester(h, i - 1)

\* the tool result at position i of h follows, with only tool results in
\* between, an assistant message that declared its tool_call_id
RequestedJustBefore(h, i) ==
    LET j == Requester(h, i)
    IN /\ j # 0
       /\ h[j].type = "ai"
       /\ \E c \in 1..Len(h[j].tool_calls) : h[j].tool_calls[c].id = h[i].tool_call_id

NonTool(h) == SelectSeq(h, LAMBDA m : m.type # "tool")

\* what the LLM of request r was given at its latest decision step: the
\* system instruction first, every tool result right after its request, and
\* every other message of the graph state of that step
C16_FilteredView ==
    \A r \in Requests :
        req[r].steps > 0 =>
            /\ Head(req[r].llm_in.system) = "GRAPH_SYSTEM_PROMPT"
            /\ \A i \in 1..Len(req[r].llm_in.history) :
                   req[r].llm_in.history[i].type = "tool" =>
                       RequestedJustBefore(req[r].llm_in.history, i)
            /\ req[r].pc = "exc" =>
                   NonTool(req[r].llm_in.history) = NonTool(req[r].graph)
            /\ req[r].pc \in {"tools", "end"} =>
                   NonTool(req[r].llm_in.history) =
                       NonTool(SubSeq(req[r].graph, 1, Len(req[r].graph) - 1))

\* a decision step removes nothing from the graph state nor from the store
C16_StateKept ==
    \A r \in Requests :
        (req[r].pc = "llm" /\ req'[r].pc # "llm") =>
            /\ SESSIONS' = SESSIONS /\ heap' = heap
            /\ Len(req'[r].graph) >= Len(req[r].graph)
            /\ SubSeq(req'[r].graph, 1, Len(req[r].graph)) = req[r].graph

\* C16: at every decision step of the server's graph the LLM is given the
\* system instruction followed by the re-filtered history, in which a tool
\* result appears only right after an assistant message that requested it;
\* the filtering removes nothing from the stored history
C16_RefilteredAtEveryDecision == []C16_FilteredView /\ [][C16_StateKept]_vars

C16_Witness ==
    \E r \in Requests :
        /\ req[r].steps = 2 /\ req[r].pc = "end"
        /\ \E i \in 1..Len(req[r].llm_in.history) : req[r].llm_in.history[i].type = "tool"
        /\ Len(req[r].pre) > 0

\* the default cap on decision steps (max_iters of the agent loop)
IterationCap == 4

\* C18: the server's graph loop is terminal when the latest response
\* declares no tool calls or when IterationCap decision steps were taken;
\* at the cap the turn is answered with the last assistant text, not with
\* an error
C18_ServerLoopCapped ==
    \A r \in Requests :
        /\ req[r].steps <= IterationCap
        /\ req[r].steps = IterationCap => req[r].pc \in {"end", "done", "exc", "failed"}
        /\ (req[r].pc = "done" /\ req[r].steps > 0) =>
               /\ req[r].response.status = "Success"
               /\ req[r].response.answer = LastAI(req[r].graph).content

\* a step of /clear_chat_bot on x answers Success, leaves no entry for x,
\* changes nothing when x had none, and leaves every other entry as it was
C19_ClearStep ==
    \A x \in SessionKeys :
        ClearChat(x) =>
            /\ clear_response'[1] = "Success"
            /\ x \notin DOMAIN SESSIONS'
            /\ Stored(x)' = <<>>
            /\ x \notin DOMAIN SESSIONS => SESSIONS' = SESSIONS
            /\ clear_response' = Cleared(x)
            /\ \A k \in SessionKeys \ {x} :
                   /\ k \in DOMAIN SESSIONS' <=> k \in DOMAIN SESSIONS
                   /\ Stored(k)' = Stored(k)

\* C19: /clear_chat_bot always answers Success, with or without stored
\* history for the id; afterwards nothing is stored for the id, a second
\* clear has the same result, and no other session's entry is changed
C19_ClearIdempotent ==
    [](clear_response # <<>> => clear_response[1] = "Success") /\ [][C19_ClearStep]_vars

C19_Witness ==
    /\ clear_response = Cleared("A")
    /\ "A" \notin DOMAIN SESSIONS /\ Stored("B") # <<>>
    /\ \E r \in Requests : req[r].pc = "done" /\ req[r].sid = "A"

\* the session id and the history that a request starts from
C20_Start ==
    \A r \in Requests :
        (req[r].pc = "idle" /\ req'[r].pc = "append") =>
            LET sid == req'[r].sid
                state == heap'[req'[r].state]
            IN /\ sid = IF req'[r].session_id = "" THEN "default" ELSE req'[r].session_id
               /\ sid \notin DOMAIN SESSIONS => state = <<>>
               /\ sid \in DOMAIN SESSIONS => state = heap[SESSIONS[sid]]

\* the entry that a request writes
C20_Finish ==
    \A r \in Requests :
        (req[r].pc = "end" /\ req'[r].pc = "done") =>
            /\ Stored(req[r].sid)' = req[r].graph
            /\ req[r].session_id = "" => Stored("default")' = req[r].graph

\* C20: a /chat_bot request for a session id with no stored entry starts
\* from an empty history, and a request without session_id (absent or
\* empty) reads and writes the entry of the session id "default"
C20_DefaultSession ==
    [](DOMAIN SESSIONS \subseteq SessionKeys) /\ [][C20_Start /\ C20_Finish]_vars

C20_Witness ==
    \E r1 \in Requests, r2 \in Requests :
        /\ r1 # r2
        /\ req[r1].session_id = "" /\ req[r2].session_id = ""
        /\ req[r1].pc = "done" /\ req[r2].pc = "done"
        /\ req[r1].pre = <<>>
        /\ \E i \in 1..Len(Stored("default")) : Stored("default")[i].rid = r1
        /\ \E i \in 1..Len(Stored("default")) : Stored("default")[i].rid = r2

\* C21: the response to a turn that failed carries the fixed message and
\* none of the text of the internal exception (the server has no verbose
\* mode to enable)
C21_FailureTextHidden ==
    \A r \in Requests :
        (req[r].pc = "failed" /\ req[r].steps > 0) =>
            /\ req[r].response.status = "Failed"
            /\ req[r].response.message = UnableMessage
            /\ req[r].response.error = <<>>

\* request r was made without a question
NoQuestion(r) == req[r].pc \notin {"idle", "unused"} /\ req[r].question = <<>>

C22_Rejected ==
    \A r \in Requests :
        NoQuestion(r) =>
            /\ req[r].pc = "failed"
            /\ req[r].response.status = "Failed"
            /\ req[r].steps = 0 /\ req[r].llm_in = NoInput
            /\ req[r].state = 0 /\ req[r].graph = <<>>

C22_StoreKept ==
    \A r \in Requests :
        (req[r].pc = "idle" /\ NoQuestion(r)') =>
            /\ SESSIONS' = SESSIONS /\ heap' = heap
            /\ lastGql' = lastGql /\ EXTERNAL_KG_MESSAGE' = EXTERNAL_KG_MESSAGE

\* C22: a /chat_bot request without question (absent or empty) is answered
\* with a failure response; no LLM call and no tool execution is made for
\* it and no entry of the session store is created or changed
C22_EmptyQuestionRejected == []C22_Rejected /\ [][C22_StoreKept]_vars

C22_Witness ==
    \E r1 \in Requests, r2 \in Requests :
        /\ req[r1].pc = "done" /\ req[r1].sid = "A"
        /\ NoQuestion(r2) /\ req[r2].session_id = "A" /\ req[r2].pc = "failed"
        /\ Stored("A") = req[r1].post

----------------------------------------------------------------------------
(* Specification of _render_structured_input, applied twice to the same    *)
(* StructuredInput: optional fields that are None, a string, a list and a  *)
(* set whose texts end around the cut                                      *)

\* n characters
Chars(n) == [i \in 1..n |-> "a"]

\* lengths of the held string: the texts of the list and of the set are four
\* characters longer
ContentLengths == {0} \cup {FmtLimit - 4 + k : k \in 0..MaxOver}

TextFields == {NoneVal, StrVal(<<"kg">>)}

AnyFields ==
    TextFields \cup {ListVal(Chars(n)) : n \in ContentLengths}
               \cup {SetVal(Chars(n)) : n \in ContentLengths}

RenderInit ==
    /\ fin \in [additional_details : TextFields, kg_products : AnyFields,
                 kg_response : AnyFields]
    /\ fout = <<>>
    /\ fpc = "si"
    /\ LIdle /\ SIdle

\* _render_structured_input(si)
Render ==
    /\ fpc \in {"si", "rendered"}
    /\ fout' = Append(fout, _render_structured_input(<<"q">>, fin.additional_details,
                                                      fin.kg_products, fin.kg_response))
    /\ fpc' = IF fpc = "si" THEN "rendered" ELSE "again"
    /\ UNCHANGED <<fin, lvars, svars>>

RenderNext == Render

SpecRender == RenderInit /\ [][RenderNext]_vars

\* the text of one optional field, as the claim has it
Section(val) ==
    IF val = NoneVal THEN <<"N/A">>
    ELSE IF IsStr(val) THEN val.v
    ELSE LET open == IF val.t = "list" THEN <<"[", "\"">> ELSE <<"{", "'">>
             close == IF val.t = "list" THEN <<"\"", "]">> ELSE <<"'", "}">>
             whole == open \o val.v \o close
         IN [i \in 1..(IF Len(whole) < FmtLimit THEN Len(whole) ELSE FmtLimit) |-> whole[i]]

\* C27: the rendered text is the four labelled sections in the order users
\* query, additional details, KG products, KG response; None renders as N/A,
\* a list as its serialization and an unserializable set as its str(), each
\* cut to 4000 characters; rendering the same input again gives the same text
C27_RenderedSections ==
    fpc \in {"rendered", "again"} =>
        /\ \A n \in 1..Len(fout) :
               fout[n] = <<"# INPUTS", "Users query:", "q", "Additional details:">>
                           \o Section(fin.additional_details)
                           \o <<"KG products:">> \o Section(fin.kg_products)
                           \o <<"KG response:">> \o Section(fin.kg_response)
        /\ \A f \in {fin.kg_products, fin.kg_response} :
               ~IsPrimitive(f) => Len(Fmt(f)) <= FmtLimit

C27_Witness ==
    /\ fpc = "again"
    /\ fin.additional_details = NoneVal
    /\ fin.kg_products = ListVal(Chars(FmtLimit - 4 + 1))
    /\ fin.kg_response = SetVal(Chars(FmtLimit - 4 + 1))
    /\ Len(fout[1]) = 7 + FmtLimit + FmtLimit
    /\ fout[1][6 + FmtLimit] = "\""
    /\ fout[1][Len(fout[1])] = "'"
    /\ fout[2] = fout[1]

----------------------------------------------------------------------------
(* Specification of ActionQueryKnowledgeGraph.run (actions/kg_action.py)   *)
(* on every shape of the knowledge-graph response: fin is what             *)
(* self.kg.query returns (or that it raises), fout the events and the      *)
(* utterance of the action                                                 *)

\* members of a JSON object: "<absent>" no such key, "<null>" the value null
MessageValues == {"<absent>", "<null>", "", "m"}
SourcesValues == {"<absent>", "<null>", "empty", "one"}

NoInfo(kind) == [kind |-> kind, sources |-> "<absent>"]
InfoValues ==
    {NoInfo("<absent>"), NoInfo("<null>"), NoInfo("str")}
        \cup {[kind |-> "dict", sources |-> x] : x \in SourcesValues}

NoData(kind) == [kind |-> kind, message |-> "<absent>", info |-> NoInfo("<absent>")]
DataValues ==
    {NoData("<absent>"), NoData("<null>"), NoData("str")}
        \cup {[kind |-> "dict", message |-> m, info |-> i] :
                 m \in MessageValues, i \in InfoValues}

\* resp.json(), or "raise" when requests.post or raise_for_status raises
NoJson(kind) == [kind |-> kind, data |-> NoData("<absent>"), message |-> "<absent>"]
KGResponses ==
    {NoJson("raise"), NoJson("list"), NoJson("str"), NoJson("<null>")}
        \cup {[kind |-> "dict", data |-> d, message |-> m] :
                 d \in DataValues, m \in {"<absent>", "", "t"}}

\* obj.get(...) raises AttributeError unless obj is a dict
HasGet(obj) == obj.kind = "dict"

\* kg_json.get("data", {}), kg_json a dict: the default only for a missing key
GetData(kg_json) ==
    IF kg_json.data.kind = "<absent>"
    THEN [kind |-> "dict", message |-> "<absent>", info |-> NoInfo("<absent>")]
    ELSE kg_json.data

\* data.get("info", {}), data a dict
GetInfo(data) ==
    IF data.info.kind = "<absent>" THEN [kind |-> "dict", sources |-> "<absent>"]
    ELSE data.info

TruthyMember(x) == x \notin {"<absent>", "<null>", "", "empty"}

\* lines 44-55 raise
NormalizeRaises(kg_json) ==
    \/ ~HasGet(kg_json)
    \/ ~HasGet(GetData(kg_json))
    \/ ~HasGet(GetInfo(GetData(kg_json)))

\* lines 44-49, when nothing raises
KGMsg(kg_json) ==
    IF TruthyMember(GetData(kg_json).message) THEN GetData(kg_json).message
    ELSE IF TruthyMember(kg_json.message) THEN kg_json.message
    ELSE ""

\* lines 50-55, when nothing raises
KGSources(kg_json) ==
    IF TruthyMember(GetInfo(GetData(kg_json)).sources) THEN "one" ELSE "empty"

KGInit ==
    /\ fin \in KGResponses
    /\ fout = <<>>
    /\ fpc = "kg"
    /\ LIdle /\ SIdle

\* run, lines 36-72
ActionQueryKnowledgeGraph ==
    /\ fpc = "kg"
    /\ IF fin.kind = "raise" \/ NormalizeRaises(fin)
       THEN /\ fout' = <<[slots |-> {"kg_error"}, kg_message |-> "",
                          kg_sources |-> "empty", utter |-> "Sorry"]>>
            /\ fpc' = "except"
       ELSE /\ fout' = <<[slots |-> {"kg_message", "kg_sources", "kg_raw_response"},
                          kg_message |-> KGMsg(fin), kg_sources |-> KGSources(fin),
                          utter |-> IF KGMsg(fin) # "" THEN KGMsg(fin) ELSE "no message"]>>
            /\ fpc' = "returned"
    /\ UNCHANGED <<fin, lvars, svars>>

KGNext == ActionQueryKnowledgeGraph

SpecKG == KGInit /\ [][KGNext]_vars

\* the response is JSON and does not expose data.message / data.info.sources
UnexpectedShape(kg_json) ==
    /\ kg_json.kind # "raise"
    /\ \/ kg_json.kind # "dict"
       \/ kg_json.data.kind # "dict"
       \/ kg_json.data.info.kind # "dict"

\* C28: a JSON response of unexpected shape makes the action take its normal
\* path with empty sources and with no message from `data`: no kg_error
\* slot, no failure utterance
C28_UnexpectedShapeIsNoContext ==
    (fpc # "kg" /\ UnexpectedShape(fin)) =>
        /\ fpc = "returned"
        /\ "kg_error" \notin fout[1].slots
        /\ fout[1].utter # "Sorry"
        /\ fout[1].kg_sources = "empty"
        /\ fout[1].kg_message \in {"", "t"}

----------------------------------------------------------------------------
(* Concurrent requests and clears on one session (SpecServer) *)

\* the stored history of sid holds the user message and the final answer of
\* the finished turn r
TurnKept(sid, r) ==
    /\ \E i \in 1..Len(Stored(sid)) :
           Stored(sid)[i].type = "human" /\ Stored(sid)[i].rid = r
    /\ \E i \in 1..Len(Stored(sid)) : Stored(sid)[i] = LastAI(req[r].post)

\* C29: when two requests for one session overlapped and both succeeded (and
\* no clear ran), the stored history holds the user message and the final
\* answer of both turns
C29_OverlappingTurnsBothKept ==
    \A r1, r2 \in Requests :
        (/\ r1 # r2
         /\ clear_response = <<>>
         /\ req[r1].pc = "done" /\ req[r2].pc = "done"
         /\ req[r1].sid = req[r2].sid
         /\ req[r1].disturbed /\ req[r2].disturbed)
        => TurnKept(req[r1].sid, r1) /\ TurnKept(req[r1].sid, r2)

\* request r writes its result to the store in this step, after a clear of
\* its session ran while it was in flight: it had read a stored history, and
\* the entry is gone (only a clear removes an entry)
WritesBackAfterClear(r) ==
    /\ req[r].pc = "end" /\ req'[r].pc = "done"
    /\ req[r].pre # <<>>
    /\ req[r].sid \notin DOMAIN SESSIONS

C30_NoPreClearHistory ==
    \A r \in Requests :
        WritesBackAfterClear(r) =>
            \A i \in 1..Len(Stored(req[r].sid)') :
                \A k \in 1..Len(req[r].pre) : Stored(req[r].sid)'[i] # req[r].pre[k]

\* C30: a request that was in flight when its session was cleared does not
\* write the history from before the clear back into the store
C30_ClearNotUndone == [][C30_NoPreClearHistory]_vars

\* C31: at every decision step of a turn that supplied no knowledge-graph
\* input, the system message has no knowledge-graph background section
C31_NoBackgroundWithoutKGInput ==
    \A r \in Requests :
        (req[r].steps > 0 /\ req[r].kg = None) =>
            req[r].llm_in.system = SystemPrompt(None)

\* C32: when _tool_loop has returned, every executed tool call belongs to a
\* response older than the last one: the returned text is that of an LLM
\* response made after the last tool result was appended
C32_AnswerFollowsLastToolResult ==
    (lpc = "returned" /\ result.status = "returned") =>
        /\ \A k \in 1..Len(invokes) : invokes[k].iter < iters
        /\ messages[Len(messages)].type = "tool" =>
               /\ last_ai.tool_calls = <<>>
               /\ result.answer = last_ai.content

\* the store after an earlier successful turn on session A: SESSIONS["A"] is
\* the state dict that this turn's app.invoke returned
EarlierTurn ==
    <<HumanMessage(_render_structured_input(<<"q">>, NoneVal, NoneVal, NoneVal), 0),
      AIMessage(<<"earlier">>, <<>>, 0)>>

OverlapInit ==
    /\ SESSIONS = [k \in {"A"} |-> 1]
    /\ heap = <<EarlierTurn>>
    /\ req = [r \in Requests |-> IdleRequest]
    /\ EXTERNAL_KG_MESSAGE = None
    /\ lastGql = <<>>
    /\ clear_response = <<>>
    /\ FIdle /\ LIdle

SpecOverlap == OverlapInit /\ [][ServerNext]_vars

\* the history h written by the successful turn r is the history pre stored
\* before the turn, one user message of this turn, and the messages of its
\* loop, ending in an assistant message without tool calls
TurnShape(r, pre, h) ==
    /\ Len(h) >= Len(pre) + 2
    /\ SubSeq(h, 1, Len(pre)) = pre
    /\ h[Len(pre) + 1].type = "human" /\ h[Len(pre) + 1].rid = r
    /\ \A i \in (Len(pre) + 2)..Len(h) : h[i].type \in {"ai", "tool"} /\ h[i].rid = r
    /\ h[Len(h)].type = "ai" /\ h[Len(h)].tool_calls = <<>>

\* C33: after a successful turn the stored history is the pre-turn stored
\* history, then exactly one new user message of this turn, then the
\* messages of the loop, the last an assistant message without tool calls
\* whose text is the returned answer; messages_count is its length
C33_StoredHistoryShape ==
    \A r \in Requests :
        req[r].pc = "done" =>
            /\ TurnShape(r, req[r].pre, req[r].post)
            /\ req[r].response.status = "Success"
            /\ req[r].response.answer = req[r].post[Len(req[r].post)].content
            /\ req[r].response.messages_count = Len(req[r].post)

----------------------------------------------------------------------------
(* Specification of ActionSaleorGraphQL.run (actions/saleor_graphql_action *)
(* .py, lines 191-265): fin is the tracker (slots and the words of the     *)
(* latest message) and DEV_VERBOSE, fout the progress of the handler: the  *)
(* _tool_loop calls made so far, what was uttered and the returned events  *)

Products == {"a", "b"}

\* wants_prices and wants_avail, lines 201-202, for the texts "", "price"
\* (a word of the first pattern only), "stock" (of the second only), "buy"
wants_prices(user_text) == user_text \in {"price", "buy"}
wants_avail(user_text) == user_text \in {"stock", "buy"}

\* lines 205-211
qtype(slot, user_text) ==
    IF slot # "" THEN slot
    ELSE IF wants_prices(user_text) /\ wants_avail(user_text)
         THEN "product_price_and_availability"
    ELSE IF wants_prices(user_text) THEN "product_pricing"
    ELSE IF wants_avail(user_text) THEN "product_availability"
    ELSE ""

\* line 230: not product and kg_products and (wants_prices or not qtype)
MultiProduct(tr) ==
    /\ tr.product_name = ""
    /\ tr.kg_products # <<>>
    /\ wants_prices(tr.text) \/ qtype(tr.saleor_question_type, tr.text) = ""

\* lines 214-226 and 233: the task string of the n-th _tool_loop call
task(tr, n) ==
    LET q == qtype(tr.saleor_question_type, tr.text)
    IN IF MultiProduct(tr)
       THEN <<IF q = "" THEN "product_info" ELSE q, "for product", tr.kg_products[n]>>
       ELSE IF tr.product_name # ""
       THEN IF q # "" THEN <<q, "for product", tr.product_name>>
            ELSE <<"Product info (price & availability) for", tr.product_name>>
       ELSE IF tr.text # "" THEN <<tr.text>>
       ELSE <<"Answer the user's question using Saleor GraphQL.">>

\* the number of _tool_loop calls of a run in which none fails
CallsDue(tr) == IF MultiProduct(tr) THEN Len(tr.kg_products) ELSE 1

\* "\n".join(results)
RECURSIVE join(_)
join(results) ==
    IF results = <<>> THEN <<>>
    ELSE IF Len(results) = 1 THEN results[1]
    ELSE results[1] \o <<"\n">> \o join(Tail(results))

\* json.dumps(queries), queries a list of strings
RECURSIVE DumpsItems(_)
DumpsItems(queries) ==
    IF queries = <<>> THEN <<>>
    ELSE (IF Len(queries) = 1 THEN <<"\"", queries[1], "\"">>
          ELSE <<"\"", queries[1], "\"", ",", " ">>) \o DumpsItems(Tail(queries))

json_dumps_list(queries) == <<"[">> \o DumpsItems(queries) \o <<"]">>

\* lines 258-260
err_msg(verbose, error) ==
    IF verbose THEN <<"I couldn't complete the catalog query.", "Details:", error>>
    ELSE <<"I couldn't complete the catalog query.">>

SlotSet(key, value) == [key |-> key, value |-> value]

\* what one _tool_loop call gives: an answer with no or one query, or a raise
LoopOutcomes == {"plain", "queried", "raise"}

LoopResult(t, outcome) ==
    [raised |-> outcome = "raise",
     answer |-> <<"answer to">> \o t,
     queries |-> IF outcome = "queried" THEN <<t[Len(t)]>> ELSE <<>>,
     error |-> <<"LLMError">>]

Trackers ==
    [product_name : {"", "p"},
     saleor_question_type : {"", "product_pricing"},
     text : {"", "price", "stock"},
     kg_products : SeqsUpTo(Products, MaxProducts),
     saleor_last_queries : {None, <<"old">>},
     DEV_VERBOSE : BOOLEAN]

RunInit ==
    /\ fin \in Trackers
    /\ fout = [calls |-> <<>>, results |-> <<>>, queries |-> <<>>,
               utter |-> <<>>, events |-> <<>>]
    /\ fpc = "run"
    /\ LIdle /\ SIdle

\* the handler uttering every product's answer as soon as it has it
ToolLoopUtterEach(outcome) ==
    /\ fpc = "run"
    /\ LET n == Len(fout.calls) + 1
           res == LoopResult(task(fin, n), outcome)
           results == Append(fout.results, res.answer)
           queries == fout.queries \o res.queries
           calls == Append(fout.calls, res)
       IN IF res.raised
          THEN /\ fout' = [fout EXCEPT
                     !.calls = calls,
                     !.utter = Append(@, err_msg(fin.DEV_VERBOSE, res.error)),
                     !.events = <<SlotSet("saleor_last_error", res.error),
                                  SlotSet("saleor_last_queries", fin.saleor_last_queries)>>]
               /\ fpc' = "returned"
          ELSE IF n < CallsDue(fin)
          THEN /\ fout' = [fout EXCEPT !.calls = calls, !.results = results,
                                       !.queries = queries,
                                       !.utter = Append(@, res.answer)]
               /\ fpc' = "run"
          ELSE /\ fout' = [fout EXCEPT
                     !.calls = calls, !.results = results, !.queries = queries,
                     !.utter = Append(@, res.answer),
                     !.events = <<SlotSet("saleor_last_answer", join(results)),
                                  SlotSet("saleor_last_queries", json_dumps_list(queries)),
                                  SlotSet("channel_slug", <<"channel">>)>>]
               /\ fpc' = "returned"
    /\ UNCHANGED <<fin, lvars, svars>>

\* lines 228-265: one _tool_loop call of the run and what follows it: the
\* next product, the utterance and the events after the last call, or the
\* except branch
ToolLoop(outcome) ==
    /\ fpc = "run"
    /\ LET n == Len(fout.calls) + 1
           res == LoopResult(task(fin, n), outcome)
           results == Append(fout.results, res.answer)
           queries == fout.queries \o res.queries
           calls == Append(fout.calls, res)
       IN IF res.raised
          THEN /\ fout' = [fout EXCEPT
                     !.calls = calls,
                     !.utter = Append(@, err_msg(fin.DEV_VERBOSE, res.error)),
                     !.events = <<SlotSet("saleor_last_error", res.error),
                                  SlotSet("saleor_last_queries", fin.saleor_last_queries)>>]
               /\ fpc' = "returned"
          ELSE IF n < CallsDue(fin)
          THEN /\ fout' = [fout EXCEPT !.calls = calls, !.results = results,
                                       !.queries = queries]
               /\ fpc' = "run"
          ELSE /\ fout' = [fout EXCEPT
                     !.calls = calls, !.results = results, !.queries = queries,
                     !.utter = Append(@, join(results)),
                     !.events = <<SlotSet("saleor_last_answer", join(results)),
                                  SlotSet("saleor_last_queries", json_dumps_list(queries)),
                                  SlotSet("channel_slug", <<"channel">>)>>]
               /\ fpc' = "returned"
    /\ UNCHANGED <<fin, lvars, svars>>

RunNext == \E outcome \in LoopOutcomes : ToolLoop(outcome)

SpecRun == RunInit /\ [][RunNext]_vars

\* the slots that the returned events set
SlotsSet == {fout.events[i].key : i \in 1..Len(fout.events)}

\* the answers and the queries of the calls made, in call order
RECURSIVE AnswersOf(_)
AnswersOf(calls) ==
    IF calls = <<>> THEN <<>> ELSE <<calls[1].answer>> \o AnswersOf(Tail(calls))
RECURSIVE QueriesOf(_)
QueriesOf(calls) ==
    IF calls = <<>> THEN <<>> ELSE calls[1].queries \o QueriesOf(Tail(calls))

EventValue(key) ==
    LET i == CHOOSE i \in 1..Len(fout.events) : fout.events[i].key = key
    IN fout.events[i].value

SomeLoopFailed == \E n \in 1..Len(fout.calls) : fout.calls[n].raised

\* C34: while the loops of a run are being made nothing is uttered and
\* nothing returned; a run in which a loop failed has uttered exactly one
\* error message, sets saleor_last_error and the old saleor_last_queries and
\* nothing else; a run in which all loops succeeded (one per product, in
\* product order) sets saleor_last_answer to the joined answers and
\* saleor_last_queries to the concatenated query lists
C34_RunOutcome ==
    /\ fpc = "run" => fout.utter = <<>> /\ fout.events = <<>>
    /\ (fpc = "returned" /\ SomeLoopFailed) =>
           /\ Len(fout.utter) = 1
           /\ fout.utter[1][1] = "I couldn't complete the catalog query."
           /\ SlotsSet = {"saleor_last_error", "saleor_last_queries"}
           /\ EventValue("saleor_last_queries") = fin.saleor_last_queries
    /\ (fpc = "returned" /\ ~SomeLoopFailed) =>
           /\ Len(fout.calls) = CallsDue(fin)
           /\ MultiProduct(fin) =>
                  \A n \in 1..Len(fin.kg_products) :
                      fout.calls[n].answer[Len(fout.calls[n].answer)] = fin.kg_products[n]
           /\ fout.utter = <<join(AnswersOf(fout.calls))>>
           /\ SlotsSet = {"saleor_last_answer", "saleor_last_queries", "channel_slug"}
           /\ EventValue("saleor_last_answer") = join(AnswersOf(fout.calls))
           /\ EventValue("saleor_last_queries") = json_dumps_list(QueriesOf(fout.calls))

C34_Witness ==
    /\ fpc = "returned"
    /\ MultiProduct(fin) /\ Len(fin.kg_products) = 2
    /\ Len(fout.calls) = 2 /\ ~fout.calls[1].raised /\ fout.calls[2].raised
    /\ fout.calls[1].queries # <<>>
    /\ fin.saleor_last_queries = <<"old">>

====
